---- MODULE Spec2Model ----
(***************************************************************************)
(* The Corsi block-tapping progression engine of the web backend           *)
(* (src/corsi-backend/corsi_engine.py, class CorsiEngine) as driven, for   *)
(* one session, by the request handlers of src/corsi-backend/main.py.      *)
(*                                                                         *)
(* The state is the engine's fields.  A trial record keeps span_length,    *)
(* trial_number, sequence, response and correct; its wall-clock timestamp  *)
(* string is read by no rule of the engine and is left out.                *)
(*                                                                         *)
(* Three views of the program share the module:                            *)
(*   Spec, SpecClient  one CorsiEngine object and its methods;             *)
(*   SpecDb            that engine's save_session and the DatabaseManager  *)
(*                     (src/corsi-backend/database_manager.py) it writes   *)
(*                     to, each write failing or not;                      *)
(*   SpecWeb           the request handlers of main.py over the session    *)
(*                     table SESSIONS and the same database.               *)
(*   SpecRace          two threads inside submit_trial of one engine;      *)
(*   SpecDesktop       the desktop application (src/task/corsi_task.py):   *)
(*                     candidate dialogs, test runs, save_all_data;        *)
(*   SpecEquiv         the desktop loop run_main_test next to the engine,  *)
(*                     both fed the same trial outcomes;                   *)
(*   SpecLayout        one call of generate_random_block_positions.        *)
(* A specification leaves the variables of the other views as Init set     *)
(* them.                                                                   *)
(***************************************************************************)
EXTENDS Integers, Sequences, FiniteSets

VARIABLES
    \* one CorsiEngine: self.current_span, .current_trial, .finished,
    \* .results, .candidate_info
    current_span, current_trial, finished, results, candidate_info,
    \* main.py: SESSIONS, session id -> engine (ids are 1, 2, ... in the
    \* order uuid4 drew them), and the last value handed back to a caller
    \* (an HTTP response in SpecWeb, a method's return value in SpecDb)
    SESSIONS, last_response,
    \* the SQLite file: tables candidates and test_sessions
    candidates, test_sessions,
    \* datetime.now(), in seconds
    clock,
    \* the calls of submit_trial in progress, one per worker thread
    threads,
    \* the desktop application: one CorsiTask and where its run stands
    desktop,
    \* one call of CorsiTask.generate_random_block_positions
    layout

\* The variables other than the four progression fields of the one engine.
env == <<candidate_info, SESSIONS, last_response, candidates, test_sessions,
        clock, threads, desktop, layout>>

\* The variables of the views added to the engine, the database and the
\* handlers.
desk == <<threads, desktop, layout>>

vars == <<current_span, current_trial, finished, results, candidate_info,
          SESSIONS, last_response, candidates, test_sessions, clock,
          threads, desktop, layout>>

(* ---- configuration: class constants of CorsiEngine -------------------- *)
MIN_SPAN == 2
MAX_SPAN == 8
TRIALS_PER_SPAN == 2
NUM_BLOCKS == 9

(* ---- bound of the model: submit-trial requests served for the session - *)
MaxResults == 15

(* ---- bound of the model: length of the lists a client may put in a ----- *)
(* ---- submit-trial request, and number of block indices they draw on ---- *)
MaxListLen == 3

(* ---- bound of the model: operations performed in the persistence ------- *)
(* ---- specification, one per second of the clock ------------------------ *)
MaxDb == 4

(* ---- bound of the model: requests served in the web specification, ----- *)
(* ---- one per second of the clock ---------------------------------------- *)
MaxWeb == 4

(* ---- bound of the model: operations of the desktop application, one ---- *)
(* ---- per second of the clock ------------------------------------------- *)
MaxDesk == 5

(* ---- bound of the model: records appended by concurrent calls --------- *)
MaxRace == 4

(* ---- helpers ----------------------------------------------------------- *)

\* range(NUM_BLOCKS)[:n]: the first n block indices in ascending order.
FirstBlocks(n) == [i \in 1..n |-> i - 1]

\* s with its first two elements exchanged (s itself when shorter than 2).
SwapFirstTwo(s) ==
    IF Len(s) < 2 THEN s
    ELSE [i \in 1..Len(s) |-> IF i = 1 THEN s[2] ELSE IF i = 2 THEN s[1] ELSE s[i]]

\* The engine object: self.current_span, self.current_trial, self.finished,
\* self.results.
Engine ==
    [current_span |-> current_span, current_trial |-> current_trial,
     finished |-> finished, results |-> results]

\* CorsiEngine.__init__: a fresh engine.
NewEngine ==
    [current_span |-> MIN_SPAN, current_trial |-> 1,
     finished |-> FALSE, results |-> <<>>]

\* CorsiEngine._state(): the snapshot handed to the client.
state_of(self) ==
    [span_length |-> self.current_span, trial_number |-> self.current_trial,
     finished |-> self.finished]

\* The last n block indices in descending order (n <= NUM_BLOCKS).
LastBlocks(n) == [i \in 1..n |-> NUM_BLOCKS - i]

\* A draw with replacement instead of random.sample: an index may repeat.
new_sequence_with_repeats(self) ==
    {[i \in 1..self.current_span |-> 0]}

\* random.sample(range(NUM_BLOCKS), span): the set of values the call may
\* return.  It raises ValueError (returns nothing: the empty set) when span
\* exceeds the population; otherwise it returns span pairwise-distinct indices
\* of 0..NUM_BLOCKS-1 in some order, of which the model draws three.
new_sequence(self) ==
    IF self.current_span > NUM_BLOCKS
    THEN {}
    ELSE {FirstBlocks(self.current_span),
          SwapFirstTwo(FirstBlocks(self.current_span)),
          LastBlocks(self.current_span)}

\* The elements of a list, as a set.
Range(s) == {s[i] : i \in DOMAIN s}

\* Set equality in place of list equality.
is_correct_as_sets(sequence, response) == Range(sequence) = Range(response)

\* correct = sequence == response: Python list equality (same length, same
\* elements in the same positions).
is_correct(sequence, response) ==
    /\ Len(sequence) = Len(response)
    /\ \A i \in 1..Len(sequence) : sequence[i] = response[i]

\* The dict appended to self.results.
trial_record(self, sequence, response) ==
    [span_length |-> self.current_span, trial_number |-> self.current_trial,
     sequence |-> sequence, response |-> response,
     correct |-> is_correct(sequence, response)]

\* [r for r in self.results if r["span_length"] == span]
span_trials(res, span) == SelectSeq(res, LAMBDA r : r.span_length = span)

\* sum(r["correct"] for r in trials)
sum_correct(trials) == Cardinality({i \in DOMAIN trials : trials[i].correct})

(* ---- faulty variants of the rules, used to test the properties below -- *)

\* The discontinue branch is missing: a span with no correct trial is treated
\* like any completed span.
progression_no_discontinue(self, trials) ==
    IF Len(trials) >= TRIALS_PER_SPAN
    THEN IF self.current_span < MAX_SPAN
         THEN [current_span |-> self.current_span + 1, current_trial |-> 1,
               finished |-> self.finished]
         ELSE [current_span |-> self.current_span, current_trial |-> 1,
               finished |-> TRUE]
    ELSE [current_span |-> self.current_span,
          current_trial |-> self.current_trial + 1,
          finished |-> self.finished]

\* The discontinue test reads "not every trial correct" instead of "no trial
\* correct".
progression_all_correct(self, trials) ==
    IF Len(trials) >= TRIALS_PER_SPAN
    THEN IF Cardinality({i \in DOMAIN trials : trials[i].correct}) < Len(trials)
         THEN [current_span |-> self.current_span, current_trial |-> 1,
               finished |-> TRUE]
         ELSE IF self.current_span < MAX_SPAN
              THEN [current_span |-> self.current_span + 1, current_trial |-> 1,
                    finished |-> self.finished]
              ELSE [current_span |-> self.current_span, current_trial |-> 1,
                    finished |-> TRUE]
    ELSE [current_span |-> self.current_span,
          current_trial |-> self.current_trial + 1,
          finished |-> self.finished]

\* The test current_span < MAX_SPAN is missing: the span always advances.
progression_no_ceiling(self, trials) ==
    IF Len(trials) >= TRIALS_PER_SPAN
    THEN IF Cardinality({i \in DOMAIN trials : trials[i].correct}) = 0
         THEN [current_span |-> self.current_span, current_trial |-> 1,
               finished |-> TRUE]
         ELSE [current_span |-> self.current_span + 1, current_trial |-> 1,
               finished |-> self.finished]
    ELSE [current_span |-> self.current_span,
          current_trial |-> self.current_trial + 1,
          finished |-> self.finished]

\* current_trial = 1 is assigned in the discontinue branch only.
progression_no_reset(self, trials) ==
    IF Len(trials) >= TRIALS_PER_SPAN
    THEN IF Cardinality({i \in DOMAIN trials : trials[i].correct}) = 0
         THEN [current_span |-> self.current_span, current_trial |-> 1,
               finished |-> TRUE]
         ELSE IF self.current_span < MAX_SPAN
              THEN [current_span |-> self.current_span + 1,
                    current_trial |-> self.current_trial,
                    finished |-> self.finished]
              ELSE [current_span |-> self.current_span,
                    current_trial |-> self.current_trial,
                    finished |-> TRUE]
    ELSE [current_span |-> self.current_span,
          current_trial |-> self.current_trial + 1,
          finished |-> self.finished]

\* Advancing the span assigns finished = False.
progression_unfinish(self, trials) ==
    IF Len(trials) >= TRIALS_PER_SPAN
    THEN IF Cardinality({i \in DOMAIN trials : trials[i].correct}) = 0
         THEN [current_span |-> self.current_span, current_trial |-> 1,
               finished |-> TRUE]
         ELSE IF self.current_span < MAX_SPAN
              THEN [current_span |-> self.current_span + 1, current_trial |-> 1,
                    finished |-> FALSE]
              ELSE [current_span |-> self.current_span, current_trial |-> 1,
                    finished |-> TRUE]
    ELSE [current_span |-> self.current_span,
          current_trial |-> self.current_trial + 1,
          finished |-> self.finished]

\* The else branch assigns the number of trials recorded at the span instead
\* of incrementing.
progression_trial_from_count(self, trials) ==
    IF Len(trials) >= TRIALS_PER_SPAN
    THEN IF Cardinality({i \in DOMAIN trials : trials[i].correct}) = 0
         THEN [current_span |-> self.current_span, current_trial |-> 1,
               finished |-> TRUE]
         ELSE IF self.current_span < MAX_SPAN
              THEN [current_span |-> self.current_span + 1, current_trial |-> 1,
                    finished |-> self.finished]
              ELSE [current_span |-> self.current_span, current_trial |-> 1,
                    finished |-> TRUE]
    ELSE [current_span |-> self.current_span,
          current_trial |-> Len(trials),
          finished |-> self.finished]

\* The span is complete only with more than TRIALS_PER_SPAN trials (> for >=).
progression_off_by_one(self, trials) ==
    IF Len(trials) > TRIALS_PER_SPAN
    THEN IF Cardinality({i \in DOMAIN trials : trials[i].correct}) = 0
         THEN [current_span |-> self.current_span, current_trial |-> 1,
               finished |-> TRUE]
         ELSE IF self.current_span < MAX_SPAN
              THEN [current_span |-> self.current_span + 1, current_trial |-> 1,
                    finished |-> self.finished]
              ELSE [current_span |-> self.current_span, current_trial |-> 1,
                    finished |-> TRUE]
    ELSE [current_span |-> self.current_span,
          current_trial |-> self.current_trial + 1,
          finished |-> self.finished]

\* The new record is inserted at the front of results.
appended_results_prepend(self, sequence, response) ==
    <<[span_length |-> self.current_span, trial_number |-> self.current_trial,
       sequence |-> sequence, response |-> response,
       correct |-> (sequence = response)]>> \o self.results

(* ---- the rules of submit_trial ------------------------------------------ *)

\* The progression rules of submit_trial, applied to the trials recorded at
\* the current span (the new record included).
progression(self, trials) ==
    IF Len(trials) >= TRIALS_PER_SPAN
    THEN IF sum_correct(trials) = 0
         THEN [current_span |-> self.current_span, current_trial |-> 1,
               finished |-> TRUE]
         ELSE IF self.current_span < MAX_SPAN
              THEN [current_span |-> self.current_span + 1, current_trial |-> 1,
                    finished |-> self.finished]
              ELSE [current_span |-> self.current_span, current_trial |-> 1,
                    finished |-> TRUE]
    ELSE [current_span |-> self.current_span,
          current_trial |-> self.current_trial + 1,
          finished |-> self.finished]

\* self.results after the append of submit_trial.
appended_results(self, sequence, response) ==
    Append(self.results, trial_record(self, sequence, response))

\* CorsiEngine.submit_trial: the engine after the call.
submit_trial(self, sequence, response) ==
    LET res == appended_results(self, sequence, response)
        p   == progression(self, span_trials(res, self.current_span))
    IN  [current_span |-> p.current_span, current_trial |-> p.current_trial,
         finished |-> p.finished, results |-> res]

\* The snapshot of the returned dict is taken before the mutation.
submit_trial_return_stale(self, sequence, response) ==
    [correct |-> is_correct(sequence, response),
     finished |-> self.finished,
     next_state |-> state_of(self)]

\* CorsiEngine.submit_trial: the dict it returns, built after the mutation.
submit_trial_return(self, sequence, response) ==
    LET after == submit_trial(self, sequence, response)
    IN  [correct |-> is_correct(sequence, response),
         finished |-> after.finished,
         next_state |-> state_of(after)]

\* max of a non-empty finite set of integers.
SetMax(S) == CHOOSE m \in S : \A x \in S : x <= m

\* The accuracy test reads > 0.5 instead of >= 0.5.
calculate_corsi_span_strict(res) ==
    LET spans == {res[i].span_length : i \in DOMAIN res}
        span_scores ==
            {s \in spans :
                LET trials == span_trials(res, s)
                IN  sum_correct(trials) * 2 > Len(trials)}
    IN  IF span_scores = {} THEN 0 ELSE SetMax(span_scores)

\* CorsiEngine.calculate_corsi_span: highest span with accuracy >= 0.5, or 0.
\* correct/len >= 0.5 is decided as 2*correct >= len.
calculate_corsi_span(res) ==
    LET spans == {res[i].span_length : i \in DOMAIN res}
        span_scores ==
            {s \in spans :
                LET trials == span_trials(res, s)
                IN  sum_correct(trials) * 2 >= Len(trials)}
    IN  IF span_scores = {} THEN 0 ELSE SetMax(span_scores)

(* ---- candidate metadata and the database ------------------------------- *)

\* Values of candidates.candidate_id the model uses; "" is the empty string.
CandidateIds == {"C001", ""}

\* CandidateInfo.dict(): two sets of personal details for a candidate id.
\* "None" stands for Python's None.
details(candidate_id, v) ==
    IF v = 1
    THEN [candidate_id |-> candidate_id, candidate_name |-> "Ann",
          age |-> "30", gender |-> "F", examiner_name |-> "Dr A",
          additional_notes |-> "None", session |-> 1]
    ELSE IF v = 2
    THEN [candidate_id |-> candidate_id, candidate_name |-> "Ann B",
          age |-> "None", gender |-> "None", examiner_name |-> "Dr B",
          additional_notes |-> "left-handed", session |-> 2]
    ELSE [candidate_id |-> candidate_id, candidate_name |-> "None",
          age |-> "None", gender |-> "None", examiner_name |-> "None",
          additional_notes |-> "None", session |-> 1]

\* The dicts a caller passes to save_candidate: complete details, changed
\* details, and a dict whose candidate_name is None.
DetailVersions == {1, 2, 3}

\* The candidate_info the one engine of Spec was constructed with.
DefaultCandidate == details("C001", 1)

\* No row under a candidate_id / a row of table candidates.
NoRow == [present |-> FALSE]

\* The two tables as one value.
Db == [candidates |-> candidates, test_sessions |-> test_sessions]

\* The outcomes of a write: it commits, or an exception is raised while
\* connecting, while executing its first or second statement, or in commit.
WriteOutcomes == {"ok", "connect", "first", "second", "commit"}

\* The existing row is replaced by a fresh one (INSERT OR REPLACE): the
\* session counter and the creation date are lost.
save_candidate_replacing(db, info, now, outcome) ==
    IF outcome # "ok" \/ info.candidate_name = "None"
    THEN [db |-> db, ret |-> FALSE]
    ELSE [db |-> [db EXCEPT !.candidates[info.candidate_id] =
                    [present |-> TRUE, candidate_name |-> info.candidate_name,
                     age |-> info.age, gender |-> info.gender,
                     examiner_name |-> info.examiner_name,
                     additional_notes |-> info.additional_notes,
                     date_created |-> now, total_sessions |-> 0,
                     last_session_date |-> now]],
          ret |-> TRUE]

\* DatabaseManager.save_candidate: SELECT, then UPDATE or INSERT, then
\* commit, all in one transaction; any exception (a failing step, or the NOT
\* NULL constraint on candidate_name) closes the connection without commit
\* and returns False.
save_candidate(db, info, now, outcome) ==
    IF outcome # "ok" \/ info.candidate_name = "None"
    THEN [db |-> db, ret |-> FALSE]
    ELSE IF db.candidates[info.candidate_id].present
    THEN [db |-> [db EXCEPT !.candidates[info.candidate_id] =
                    [@ EXCEPT !.candidate_name = info.candidate_name,
                              !.age = info.age,
                              !.gender = info.gender,
                              !.examiner_name = info.examiner_name,
                              !.additional_notes = info.additional_notes,
                              !.last_session_date = now]],
          ret |-> TRUE]
    ELSE [db |-> [db EXCEPT !.candidates[info.candidate_id] =
                    [present |-> TRUE, candidate_name |-> info.candidate_name,
                     age |-> info.age, gender |-> info.gender,
                     examiner_name |-> info.examiner_name,
                     additional_notes |-> info.additional_notes,
                     date_created |-> now, total_sessions |-> 0,
                     last_session_date |-> now]],
          ret |-> TRUE]

\* UPDATE candidates SET total_sessions = total_sessions + 1,
\* last_session_date = ? WHERE candidate_id = ?: no row matches an id that
\* is not stored.
increment_sessions(db, candidate_id, test_date) ==
    IF db.candidates[candidate_id].present
    THEN [db EXCEPT !.candidates[candidate_id] =
            [@ EXCEPT !.total_sessions = @ + 1, !.last_session_date = test_date]]
    ELSE db

\* INSERT INTO test_sessions: session_id is AUTOINCREMENT.  The FOREIGN KEY
\* on candidate_id is declared but SQLite does not enforce it (no PRAGMA
\* foreign_keys = ON), so any candidate_id is inserted.
insert_session(db, candidate_id, session_data) ==
    [db EXCEPT !.test_sessions =
        Append(@, [session_id |-> Len(@) + 1,
                   candidate_id |-> candidate_id,
                   session_number |-> session_data.session_number,
                   test_date |-> session_data.test_date,
                   corsi_span |-> session_data.corsi_span,
                   total_trials |-> session_data.total_trials,
                   correct_trials |-> session_data.correct_trials,
                   accuracy |-> session_data.accuracy,
                   data_files |-> session_data.data_files])]

\* Each statement is committed on its own: an exception after the UPDATE
\* leaves the incremented counter in place.
save_test_session_autocommit(db, candidate_id, session_data, outcome) ==
    IF outcome = "connect" \/ outcome = "first"
    THEN [db |-> db, ret |-> FALSE]
    ELSE IF outcome = "second"
    THEN [db |-> increment_sessions(db, candidate_id, session_data.test_date),
          ret |-> FALSE]
    ELSE [db |-> insert_session(
                    increment_sessions(db, candidate_id, session_data.test_date),
                    candidate_id, session_data),
          ret |-> (outcome = "ok")]

\* DatabaseManager.save_test_session: UPDATE, INSERT and commit in one
\* transaction; an exception at any step closes the connection without
\* commit (both statements are rolled back) and returns False.
save_test_session(db, candidate_id, session_data, outcome) ==
    IF outcome # "ok"
    THEN [db |-> db, ret |-> FALSE]
    ELSE [db |-> insert_session(
                    increment_sessions(db, candidate_id, session_data.test_date),
                    candidate_id, session_data),
          ret |-> TRUE]

\* The empty dict save_session returns for an engine without results.
EmptySummary == [empty |-> TRUE]

\* The summary counts every record, correct or not, as correct.
session_summary_all_correct(res, info, now) ==
    [empty |-> FALSE,
     session_number |-> info.session,
     test_date |-> now,
     corsi_span |-> calculate_corsi_span(res),
     total_trials |-> Len(res),
     correct_trials |-> Len(res),
     accuracy |-> [num |-> Len(res) * 100, den |-> Len(res)],
     data_files |-> <<>>]

\* The session_data dict of save_session.  accuracy is the fraction
\* (correct_trials / total_trials) * 100 kept exact as num/den; the rounding
\* of the float division is not modelled.
session_summary(res, info, now) ==
    [empty |-> FALSE,
     session_number |-> info.session,
     test_date |-> now,
     corsi_span |-> calculate_corsi_span(res),
     total_trials |-> Len(res),
     correct_trials |-> sum_correct(res),
     accuracy |-> [num |-> sum_correct(res) * 100, den |-> Len(res)],
     data_files |-> <<>>]

\* The check "if not self.results" is missing: an engine without results is
\* saved like any other (its accuracy is taken as 0).
save_session_unguarded(self, info, db, now, o1, o2) ==
    LET data == [empty |-> FALSE, session_number |-> info.session,
                 test_date |-> now, corsi_span |-> 0,
                 total_trials |-> Len(self.results),
                 correct_trials |-> sum_correct(self.results),
                 accuracy |-> [num |-> 0, den |-> 1], data_files |-> <<>>]
        c == save_candidate(db, info, now, o1)
        s == save_test_session(c.db, info.candidate_id, data, o2)
    IN  [summary |-> data, db |-> s.db, self |-> self, raised |-> FALSE]

\* A failed write makes save_session raise instead of returning the summary.
save_session_raising(self, info, db, now, o1, o2) ==
    IF self.results = <<>>
    THEN [summary |-> EmptySummary, db |-> db, self |-> self, raised |-> FALSE]
    ELSE LET data == session_summary(self.results, info, now)
             c == save_candidate(db, info, now, o1)
             s == save_test_session(c.db, info.candidate_id, data, o2)
         IN  [summary |-> IF c.ret /\ s.ret THEN data ELSE EmptySummary,
              db |-> s.db, self |-> self, raised |-> ~(c.ret /\ s.ret)]

\* CorsiEngine.save_session on engine self with candidate_info info: the
\* summary returned, the database after the call, the engine after the call
\* and whether an exception left the method.  o1 and o2 are the outcomes of
\* the two writes; their return values are dropped.
save_session(self, info, db, now, o1, o2) ==
    IF self.results = <<>>
    THEN [summary |-> EmptySummary, db |-> db, self |-> self, raised |-> FALSE]
    ELSE LET data == session_summary(self.results, info, now)
             c == save_candidate(db, info, now, o1)
             s == save_test_session(c.db, info.candidate_id, data, o2)
         IN  [summary |-> data, db |-> s.db, self |-> self, raised |-> FALSE]

\* Nothing returned to a caller yet.
NoResponse == [op |-> "none"]

(* ---- the desktop application: src/task/corsi_task.py -------------------- *)

\* self.exp_info = {} of a new CorsiTask.
NoInfo == [empty |-> TRUE]

\* The texts an examiner types into the field "session" of a dialog.
SessionTexts == {"1", "2", "0", "abc", ""}

\* int(text): the integer a text denotes, or ValueError.
parse_int(text) ==
    IF text = "1" THEN [error |-> FALSE, value |-> 1]
    ELSE IF text = "2" THEN [error |-> FALSE, value |-> 2]
    ELSE IF text = "0" THEN [error |-> FALSE, value |-> 0]
    ELSE [error |-> TRUE, value |-> 0]

\* The dict a candidate dialog leaves behind when it closes.
dialog_info(name, id, session) ==
    [candidate_id |-> id, candidate_name |-> name, age |-> "30",
     gender |-> "Female", examiner_name |-> "Dr A",
     additional_notes |-> "", session |-> session]

\* The dicts the model's examiner enters: name and id filled in or left
\* empty, session any of SessionTexts.
DialogInfos ==
    {dialog_info(name, id, session) :
        name \in {"Ann", ""}, id \in {"C001", ""}, session \in SessionTexts}

\* The session number may be 0.
validate_candidate_info_nonnegative(info) ==
    IF info.candidate_name = "" \/ info.candidate_id = ""
    THEN FALSE
    ELSE LET session == parse_int(info.session)
         IN  IF session.error \/ session.value < 0 THEN FALSE ELSE TRUE

\* validate_candidate_info of src/utils/validation.py.
validate_candidate_info(info) ==
    IF info.candidate_name = "" \/ info.candidate_id = ""
    THEN FALSE
    ELSE LET session == parse_int(info.session)
         IN  IF session.error \/ session.value < 1 THEN FALSE ELSE TRUE

\* A new CorsiTask, before main() has shown the first dialog.  span_length,
\* trial_num and span_results are the locals of run_main_test; files are
\* the result files written; last is the operation that ran last.
NewTask ==
    [phase |-> "startup", exp_info |-> NoInfo, results |-> <<>>,
     span_length |-> MIN_SPAN, trial_num |-> 0, span_results |-> <<>>,
     files |-> <<>>, last |-> [op |-> "none"]]

\* What happens in one trial of the desktop test: the candidate reproduces
\* the sequence or does not, or the examiner presses Q while the sequence
\* is shown or while the response is entered.
TrialInputs == {"correct", "incorrect", "quit_display", "quit_response"}

\* A trial record of the desktop task.  Its text fields (candidate details,
\* the joined sequence and response, the timestamp) are read by no rule of
\* the loop or of the score and are left out.
task_record(span_length, trial_num, correct) ==
    [span_length |-> span_length, trial_number |-> trial_num,
     correct |-> correct]

\* How many of a list of booleans are true: sum(span_results).
sum_true(flags) == Cardinality({i \in DOMAIN flags : flags[i]})

\* The loop goes on to the next span whatever the two trials gave.
main_test_trial_no_discontinue(task, input) ==
    IF input \in {"quit_display", "quit_response"}
    THEN [task |-> task, returned |-> "False"]
    ELSE LET rec == task_record(task.span_length, task.trial_num + 1,
                                input = "correct")
             res == Append(task.results, rec)
             span_results == Append(task.span_results, rec.correct)
         IN  IF task.trial_num + 1 < TRIALS_PER_SPAN
             THEN [task |-> [task EXCEPT !.results = res,
                                        !.trial_num = @ + 1,
                                        !.span_results = span_results],
                   returned |-> "no"]
             ELSE IF task.span_length = MAX_SPAN
             THEN [task |-> [task EXCEPT !.results = res], returned |-> "True"]
             ELSE [task |-> [task EXCEPT !.results = res,
                                        !.span_length = @ + 1,
                                        !.trial_num = 0,
                                        !.span_results = <<>>],
                   returned |-> "no"]

\* One pass of the inner loop of run_main_test: run_single_trial (which
\* appends the record unless the examiner quits), then the bookkeeping of
\* both for-loops up to the next trial or to the return.  returned is "no"
\* while the loop goes on, else the value run_main_test returns.
main_test_trial(task, input) ==
    IF input \in {"quit_display", "quit_response"}
    THEN [task |-> task, returned |-> "False"]
    ELSE LET rec == task_record(task.span_length, task.trial_num + 1,
                                input = "correct")
             res == Append(task.results, rec)
             span_results == Append(task.span_results, rec.correct)
         IN  IF task.trial_num + 1 < TRIALS_PER_SPAN
             THEN [task |-> [task EXCEPT !.results = res,
                                        !.trial_num = @ + 1,
                                        !.span_results = span_results],
                   returned |-> "no"]
             ELSE IF sum_true(span_results) = 0 \/ task.span_length = MAX_SPAN
             THEN [task |-> [task EXCEPT !.results = res], returned |-> "True"]
             ELSE [task |-> [task EXCEPT !.results = res,
                                        !.span_length = @ + 1,
                                        !.trial_num = 0,
                                        !.span_results = <<>>],
                   returned |-> "no"]

\* CorsiTask.calculate_corsi_span: the highest span whose trials are at
\* least half correct, 0 if there is none.
task_calculate_corsi_span(res) ==
    LET spans == {res[i].span_length : i \in DOMAIN res}
        accurate(span) ==
            LET span_trials_ == {i \in DOMAIN res : res[i].span_length = span}
                correct_ == {i \in span_trials_ : res[i].correct}
            IN  2 * Cardinality(correct_) >= Cardinality(span_trials_)
        span_scores == {span \in spans : accurate(span)}
    IN  IF span_scores = {} THEN 0 ELSE SetMax(span_scores)

\* A quit run that has results is saved like a completed one.
should_save_partial(success, res) == res # <<>>

\* run_corsi_task: "if success and self.results".
should_save(success, res) == success /\ res # <<>>

\* The outcomes of writing the results file: written, or open/write raises.
FileOutcomes == {"ok", "error"}

\* CorsiTask.save_all_data for non-empty results: the results file, then
\* the session row.  An exception while writing the file leaves the method
\* before the database is touched.
save_all_data(task, db, now, file_outcome, outcome) ==
    IF task.results = <<>>
    THEN [task |-> task, db |-> db, raised |-> FALSE]
    ELSE IF file_outcome # "ok"
    THEN [task |-> task, db |-> db, raised |-> TRUE]
    ELSE LET saved_files == <<[candidate_id |-> task.exp_info.candidate_id,
                              timestamp |-> now]>>
             session_data ==
                [empty |-> FALSE,
                 session_number |-> parse_int(task.exp_info.session).value,
                 test_date |-> now,
                 corsi_span |-> task_calculate_corsi_span(task.results),
                 total_trials |-> Len(task.results),
                 correct_trials |->
                    Cardinality({i \in DOMAIN task.results : task.results[i].correct}),
                 accuracy |->
                    [num |-> 100 * Cardinality({i \in DOMAIN task.results :
                                                  task.results[i].correct}),
                     den |-> Len(task.results)],
                 data_files |-> saved_files]
             s == save_test_session(db, task.exp_info.candidate_id,
                                    session_data, outcome)
         IN  [task |-> [task EXCEPT !.files = @ \o saved_files],
              db |-> s.db, raised |-> FALSE]

\* The worker threads that serve the sync handlers of main.py; two of them
\* are inside submit_trial of the same engine at most.
Threads == {1, 2}

\* A thread that is not inside submit_trial.
Idle == [pc |-> "idle"]

(* ---- CorsiTask.generate_random_block_positions --------------------------- *)

\* config.py: the least distance between two block centres, in pixels.
MIN_BLOCK_DISTANCE == 120

\* The local max_attempts.
max_attempts == 1000

\* The locals x_range and y_range.
x_range == {-350, -200, -50, 50, 200, 350}
y_range == {-250, -100, 50, 100, 250}

\* The coordinates the model's random.choice draws: three columns and three
\* rows of the grid.
DrawX == {x \in x_range : x <= -50}
DrawY == {y \in y_range : y <= 50}

\* np.sqrt((x - ex)**2 + (y - ey)**2) >= MIN_BLOCK_DISTANCE, compared on the
\* squares (the square root is monotone and exact at the threshold).
far_enough(x, y, ex, ey) ==
    (x - ex) * (x - ex) + (y - ey) * (y - ey)
        >= MIN_BLOCK_DISTANCE * MIN_BLOCK_DISTANCE

\* The call at entry: positions = [], attempts = 0.  positions is kept as
\* the set of the points placed: the function reads no order from the list
\* and the distance test admits no point twice.
NewLayout == [positions |-> {}, attempts |-> 0, returned |-> FALSE]

\* The locals of run_main_test are gone once it has returned.
after_return(task) ==
    [task EXCEPT !.span_length = MIN_SPAN, !.trial_num = 0,
                 !.span_results = <<>>]

(* ---- inputs ------------------------------------------------------------ *)

\* What a client submits: the sequence it was shown for the current span and
\* either that sequence (a correct reproduction) or the same blocks in another
\* order (an incorrect one).
SubmittedSequences == {FirstBlocks(current_span)}
SubmittedResponses(sequence) == {sequence, SwapFirstTwo(sequence)}

(* ---- the state machine -------------------------------------------------- *)

Init ==
    /\ current_span = NewEngine.current_span
    /\ current_trial = NewEngine.current_trial
    /\ finished = NewEngine.finished
    /\ results = NewEngine.results
    /\ candidate_info = DefaultCandidate
    /\ SESSIONS = <<>>
    /\ last_response = NoResponse
    /\ candidates = [c \in CandidateIds |-> NoRow]
    /\ test_sessions = <<>>
    /\ clock = 0
    /\ threads = [t \in Threads |-> Idle]
    /\ desktop = NewTask
    /\ layout = NewLayout

\* engine.submit_trial(sequence, response), as POST /api/submit-trial calls
\* it for the session.  Neither the method nor the handler is gated on
\* finished.  (The whole handler, save_session included, is WebSubmitTrial
\* below; save_session assigns no field of the engine.)
SubmitTrial ==
    /\ Len(results) < MaxResults
    /\ \E sequence \in SubmittedSequences :
         \E response \in SubmittedResponses(sequence) :
            LET e == submit_trial(Engine, sequence, response)
            IN  /\ current_span' = e.current_span
                /\ current_trial' = e.current_trial
                /\ finished' = e.finished
                /\ results' = e.results
                /\ UNCHANGED env

\* engine.new_sequence() and engine._state(), as GET
\* /api/sequence/{session_id} calls them for the session.
GetSequence ==
    /\ \E seq \in new_sequence(Engine) : Len(seq) = state_of(Engine).span_length
    /\ UNCHANGED vars

\* start_session re-initialises the engine before returning its state.
StartSession_resets ==
    /\ current_span' = MIN_SPAN
    /\ current_trial' = 1
    /\ finished' = FALSE
    /\ results' = <<>>
    /\ UNCHANGED env

\* engine.start_session(): returns _state().
StartSession ==
    /\ state_of(Engine).finished = finished
    /\ UNCHANGED vars

\* engine.calculate_corsi_span(): a pure aggregate of results.
CalculateCorsiSpan ==
    /\ calculate_corsi_span(results) \in 0..MAX_SPAN
    /\ UNCHANGED vars

Next ==
    \/ SubmitTrial
    \/ GetSequence
    \/ StartSession
    \/ CalculateCorsiSpan

Spec == Init /\ [][Next]_vars

(* ---- the engine and the database ----------------------------------------- *)

\* The engine fields and the tables take the values of a save_session result.
Saved(r) ==
    /\ current_span' = r.self.current_span
    /\ current_trial' = r.self.current_trial
    /\ finished' = r.self.finished
    /\ results' = r.self.results
    /\ candidates' = r.db.candidates
    /\ test_sessions' = r.db.test_sessions

\* engine.submit_trial(sequence, response), one second later.
DbSubmitTrial ==
    /\ clock < MaxDb
    /\ clock' = clock + 1
    /\ \E sequence \in SubmittedSequences :
         \E response \in SubmittedResponses(sequence) :
            LET e == submit_trial(Engine, sequence, response)
            IN  /\ current_span' = e.current_span
                /\ current_trial' = e.current_trial
                /\ finished' = e.finished
                /\ results' = e.results
                /\ last_response' =
                     [op |-> "submit_trial",
                      ret |-> submit_trial_return(Engine, sequence, response)]
    /\ UNCHANGED desk
    /\ UNCHANGED <<candidate_info, SESSIONS, candidates, test_sessions>>

\* engine.save_session(), called in any state of the engine; each of its two
\* writes commits or fails.
SaveSession ==
    /\ clock < MaxDb
    /\ clock' = clock + 1
    /\ \E o1 \in WriteOutcomes, o2 \in WriteOutcomes :
         LET r == save_session(Engine, candidate_info, Db, clock, o1, o2)
         IN  /\ Saved(r)
             /\ last_response' =
                  [op |-> "save_session", ret |-> r.summary,
                   raised |-> r.raised, failed |-> (o1 # "ok" \/ o2 # "ok")]
    /\ UNCHANGED desk
    /\ UNCHANGED <<candidate_info, SESSIONS>>

\* db.save_candidate(candidate_info) with any dict, as the candidate dialogs
\* of the desktop task call it.
DbSaveCandidate ==
    /\ clock < MaxDb
    /\ clock' = clock + 1
    /\ \E c \in CandidateIds, v \in DetailVersions, o \in WriteOutcomes :
         LET r == save_candidate(Db, details(c, v), clock, o)
         IN  /\ candidates' = r.db.candidates
             /\ test_sessions' = r.db.test_sessions
             /\ last_response' =
                  [op |-> "save_candidate", arg |-> details(c, v),
                   ret |-> r.ret]
    /\ UNCHANGED desk
    /\ UNCHANGED <<current_span, current_trial, finished, results,
                   candidate_info, SESSIONS>>

\* db.save_test_session(candidate_id, session_data) for any candidate_id,
\* with the summary of the engine's results.
DbSaveTestSession ==
    /\ clock < MaxDb
    /\ clock' = clock + 1
    /\ results # <<>>
    /\ \E c \in CandidateIds, o \in WriteOutcomes :
         LET r == save_test_session(
                     Db, c, session_summary(results, details(c, 1), clock), o)
         IN  /\ candidates' = r.db.candidates
             /\ test_sessions' = r.db.test_sessions
             /\ last_response' =
                  [op |-> "save_test_session", arg |-> c, ret |-> r.ret]
    /\ UNCHANGED desk
    /\ UNCHANGED <<current_span, current_trial, finished, results,
                   candidate_info, SESSIONS>>

NextDb ==
    \/ DbSubmitTrial
    \/ SaveSession
    \/ DbSaveCandidate
    \/ DbSaveTestSession

SpecDb == Init /\ [][NextDb]_vars

(* ---- the request handlers of main.py -------------------------------------- *)

\* A JSON value of the field "session" of a start-session body.
JsonInt(n) == [kind |-> "int", value |-> n]
JsonText == [kind |-> "str", value |-> 0]
JsonAbsent == [kind |-> "absent", value |-> 0]

\* A start-session body; "None" is a field that is absent or null.
body(name, id, session) ==
    [examiner_name |-> "Dr A", candidate_name |-> name, candidate_id |-> id,
     age |-> "30", gender |-> "F", session |-> session,
     additional_notes |-> "None"]

\* The bodies the model sends: complete; session left out; empty name; empty
\* id; session 0; name missing; session not a number.
StartBodies ==
    {body("Ann", "C001", JsonInt(1)),
     body("Ann", "C001", JsonAbsent),
     body("", "C001", JsonInt(1)),
     body("Ann", "", JsonInt(1)),
     body("Ann", "C001", JsonInt(0)),
     body("None", "C001", JsonInt(1)),
     body("Ann", "C001", JsonText)}

\* The pydantic model CandidateInfo: examiner_name, candidate_name and
\* candidate_id are required strings (any string, the empty one included),
\* session is an int (any int) with default 1.
accepts(b) ==
    /\ b.examiner_name # "None"
    /\ b.candidate_name # "None"
    /\ b.candidate_id # "None"
    /\ b.session.kind \in {"int", "absent"}

\* candidate.dict() of an accepted body.
candidate_dict(b) ==
    [candidate_id |-> b.candidate_id, candidate_name |-> b.candidate_name,
     age |-> b.age, gender |-> b.gender, examiner_name |-> b.examiner_name,
     additional_notes |-> b.additional_notes,
     session |-> IF b.session.kind = "int" THEN b.session.value ELSE 1]

\* start_session writes the candidate as soon as the session begins.
start_session_db_saving(db, info, now) == save_candidate(db, info, now, "ok").db

\* The database after CorsiEngine(candidate.dict()) and engine.start_session():
\* the tables are created if missing and no row is written.
start_session_db(db, info, now) == db

\* An unknown id is served from whatever session was created last.
session_known_or_last(sessions, session_id) == sessions # <<>>

\* engine = SESSIONS.get(session_id); if not engine: 404.
session_known(sessions, session_id) == session_id \in DOMAIN sessions

\* The entry of SESSIONS a handler works on.
session_entry(sessions, session_id) ==
    IF session_id \in DOMAIN sessions
    THEN sessions[session_id]
    ELSE sessions[Len(sessions)]

\* results is one list shared by every engine (a class attribute).
sessions_after_submit_shared(sessions, session_id, e) ==
    [s \in DOMAIN sessions |->
        IF s = session_id
        THEN [sessions[s] EXCEPT !.engine = e]
        ELSE [sessions[s] EXCEPT !.engine.results = e.results]]

\* SESSIONS after engine.submit_trial mutated the engine stored under
\* session_id: every other engine is its own object with its own results.
sessions_after_submit(sessions, session_id, e) ==
    [s \in DOMAIN sessions |->
        IF s = session_id THEN [sessions[s] EXCEPT !.engine = e] ELSE sessions[s]]

\* No summary: the handler's None.
NoSummary == [empty |-> TRUE, none |-> TRUE]

\* The body of submit_trial (the handler) for a known session:
\*   result = engine.submit_trial(sub.sequence, sub.response)
\*   summary = engine.save_session() if result["finished"] else None
\* giving the engine and the database after it and the body returned.
submit_outcome(entry, sequence, response, db, now, o1, o2) ==
    LET e   == submit_trial(entry.engine, sequence, response)
        ret == submit_trial_return(entry.engine, sequence, response)
        sv  == save_session(e, entry.candidate_info, db, now, o1, o2)
    IN  IF ret.finished
        THEN [engine |-> sv.self, db |-> sv.db, raised |-> sv.raised,
              body |-> [trial_result |-> ret, summary |-> sv.summary]]
        ELSE [engine |-> e, db |-> db, raised |-> FALSE,
              body |-> [trial_result |-> ret, summary |-> NoSummary]]

\* The session ids a request may name: the known ones and one that is not.
RequestIds == 1..(Len(SESSIONS) + 1)

\* POST /api/start-session.  A body CandidateInfo refuses is answered 422
\* before the handler runs.
WebStartSession ==
    /\ clock < MaxWeb
    /\ clock' = clock + 1
    /\ \E b \in StartBodies :
         IF accepts(b)
         THEN LET db == start_session_db(Db, candidate_dict(b), clock)
              IN  /\ SESSIONS' = Append(SESSIONS,
                        [engine |-> NewEngine, candidate_info |-> candidate_dict(b)])
                  /\ candidates' = db.candidates
                  /\ test_sessions' = db.test_sessions
                  /\ last_response' =
                       [op |-> "start-session", status |-> 200,
                        session_id |-> Len(SESSIONS) + 1, request |-> b,
                        body |-> [state |-> state_of(NewEngine)]]
         ELSE /\ last_response' =
                   [op |-> "start-session", status |-> 422,
                    session_id |-> 0, request |-> b]
              /\ UNCHANGED <<SESSIONS, candidates, test_sessions>>
    /\ UNCHANGED desk
    /\ UNCHANGED <<current_span, current_trial, finished, results,
                   candidate_info>>

\* GET /api/sequence/{session_id}.
WebGetSequence ==
    /\ clock < MaxWeb
    /\ clock' = clock + 1
    /\ \E sid \in RequestIds :
         IF session_known(SESSIONS, sid)
         THEN \E seq \in new_sequence(session_entry(SESSIONS, sid).engine) :
                last_response' =
                    [op |-> "get-sequence", status |-> 200, session_id |-> sid,
                     body |-> [sequence |-> seq,
                               state |-> state_of(session_entry(SESSIONS, sid).engine)]]
         ELSE last_response' =
                    [op |-> "get-sequence", status |-> 404, session_id |-> sid]
    /\ UNCHANGED desk
    /\ UNCHANGED <<current_span, current_trial, finished, results,
                   candidate_info, SESSIONS, candidates, test_sessions>>

\* POST /api/submit-trial.
WebSubmitTrial ==
    /\ clock < MaxWeb
    /\ clock' = clock + 1
    /\ \E sid \in RequestIds :
         IF session_known(SESSIONS, sid)
         THEN LET entry == session_entry(SESSIONS, sid)
                  sequence == FirstBlocks(entry.engine.current_span)
              IN  \E response \in SubmittedResponses(sequence) :
                   \E o1 \in WriteOutcomes, o2 \in WriteOutcomes :
                     LET out == submit_outcome(entry, sequence, response, Db,
                                               clock, o1, o2)
                     IN  /\ SESSIONS' = sessions_after_submit(SESSIONS, sid, out.engine)
                         /\ candidates' = out.db.candidates
                         /\ test_sessions' = out.db.test_sessions
                         /\ last_response' =
                              [op |-> "submit-trial",
                               status |-> IF out.raised THEN 500 ELSE 200,
                               session_id |-> sid, body |-> out.body]
         ELSE /\ last_response' =
                   [op |-> "submit-trial", status |-> 404, session_id |-> sid]
              /\ UNCHANGED <<SESSIONS, candidates, test_sessions>>
    /\ UNCHANGED desk
    /\ UNCHANGED <<current_span, current_trial, finished, results,
                   candidate_info>>

NextWeb ==
    \/ WebStartSession
    \/ WebGetSequence
    \/ WebSubmitTrial

SpecWeb == Init /\ [][NextWeb]_vars

(* ---- the desktop application ---------------------------------------------- *)

\* The desktop variable and the tables take the values task and db.
DesktopStep(task, db, last) ==
    /\ desktop' = [task EXCEPT !.last = last]
    /\ candidates' = db.candidates
    /\ test_sessions' = db.test_sessions

\* main() calls collect_candidate_details once; if it returns False the
\* application ends, else the main menu opens.
CollectCandidateDetails ==
    /\ clock < MaxDesk
    /\ clock' = clock + 1
    /\ desktop.phase = "startup"
    /\ \E OK \in BOOLEAN, exp_info \in DialogInfos, o \in WriteOutcomes :
         LET last == [op |-> "collect", OK |-> OK, info |-> exp_info]
         IN  IF OK /\ validate_candidate_info(exp_info)
             THEN DesktopStep([desktop EXCEPT !.exp_info = exp_info,
                                              !.phase = "menu"],
                              save_candidate(Db, exp_info, clock, o).db, last)
             ELSE DesktopStep([desktop EXCEPT !.phase = "exited"], Db, last)
    /\ UNCHANGED <<current_span, current_trial, finished, results,
                   candidate_info, SESSIONS, last_response, threads, layout>>

\* Key 2 of the main menu: edit_candidate_details.
EditCandidateDetails ==
    /\ clock < MaxDesk
    /\ clock' = clock + 1
    /\ desktop.phase = "menu"
    /\ IF desktop.exp_info = NoInfo
       THEN DesktopStep(desktop, Db, [op |-> "edit", OK |-> FALSE, info |-> NoInfo])
       ELSE \E OK \in BOOLEAN, editable_info \in DialogInfos, o \in WriteOutcomes :
              LET last == [op |-> "edit", OK |-> OK, info |-> editable_info]
              IN  IF OK /\ validate_candidate_info(editable_info)
                  THEN DesktopStep([desktop EXCEPT !.exp_info = editable_info],
                                   save_candidate(Db, editable_info, clock, o).db,
                                   last)
                  ELSE DesktopStep(desktop, Db, last)
    /\ UNCHANGED <<current_span, current_trial, finished, results,
                   candidate_info, SESSIONS, last_response, threads, layout>>

\* Key 1 of the main menu: run_corsi_task up to the first trial of
\* run_main_test.
RunCorsiTask ==
    /\ clock < MaxDesk
    /\ clock' = clock + 1
    /\ desktop.phase = "menu"
    /\ desktop.exp_info # NoInfo
    /\ DesktopStep([desktop EXCEPT !.results = <<>>, !.phase = "test",
                                   !.span_length = MIN_SPAN, !.trial_num = 0,
                                   !.span_results = <<>>],
                   Db, [op |-> "run"])
    /\ UNCHANGED <<current_span, current_trial, finished, results,
                   candidate_info, SESSIONS, last_response, threads, layout>>

\* One trial of run_main_test and, when run_main_test returns, the rest of
\* run_corsi_task: save_all_data if it returned True with results.  An
\* exception of the file write reaches main(), which ends the application.
RunSingleTrial ==
    /\ clock < MaxDesk
    /\ clock' = clock + 1
    /\ desktop.phase = "test"
    /\ \E input \in TrialInputs, f \in FileOutcomes, o \in WriteOutcomes :
         LET r == main_test_trial(desktop, input)
             last == [op |-> "trial", input |-> input, returned |-> r.returned]
         IN  IF r.returned = "no"
             THEN DesktopStep(r.task, Db, last)
             ELSE IF should_save(r.returned = "True", r.task.results)
             THEN LET sv == save_all_data(after_return(r.task), Db, clock, f, o)
                  IN  DesktopStep(
                        [sv.task EXCEPT !.phase =
                            IF sv.raised THEN "exited" ELSE "menu"],
                        sv.db, last)
             ELSE DesktopStep([after_return(r.task) EXCEPT !.phase = "menu"],
                              Db, last)
    /\ UNCHANGED <<current_span, current_trial, finished, results,
                   candidate_info, SESSIONS, last_response, threads, layout>>

NextDesktop ==
    \/ CollectCandidateDetails
    \/ EditCandidateDetails
    \/ RunCorsiTask
    \/ RunSingleTrial

SpecDesktop == Init /\ [][NextDesktop]_vars

(* ---- the desktop loop and the web engine, trial by trial ------------------ *)

\* A CorsiTask at the first trial of run_main_test next to a new CorsiEngine.
InitEquiv ==
    /\ current_span = NewEngine.current_span
    /\ current_trial = NewEngine.current_trial
    /\ finished = NewEngine.finished
    /\ results = NewEngine.results
    /\ candidate_info = DefaultCandidate
    /\ SESSIONS = <<>>
    /\ last_response = NoResponse
    /\ candidates = [c \in CandidateIds |-> NoRow]
    /\ test_sessions = <<>>
    /\ clock = 0
    /\ threads = [t \in Threads |-> Idle]
    /\ desktop = [NewTask EXCEPT !.phase = "test",
                                 !.exp_info = dialog_info("Ann", "C001", "1")]
    /\ layout = NewLayout

\* The outcomes of trial number n: the one the other program has already
\* recorded for that trial, else either.
Outcomes(n, recorded) ==
    IF n \in DOMAIN recorded
    THEN {IF recorded[n].correct THEN "correct" ELSE "incorrect"}
    ELSE {"correct", "incorrect"}

\* One trial of run_main_test, without a quit; the desktop loop is never
\* more than one trial ahead of the engine.
EquivDesktopTrial ==
    /\ desktop.phase = "test"
    /\ Len(desktop.results) <= Len(results)
    /\ \E input \in Outcomes(Len(desktop.results) + 1, results) :
         LET r == main_test_trial(desktop, input)
         IN  desktop' = IF r.returned = "no"
                        THEN r.task
                        ELSE [after_return(r.task) EXCEPT !.phase = "done"]
    /\ UNCHANGED <<current_span, current_trial, finished, results,
                   candidate_info, SESSIONS, last_response, candidates,
                   test_sessions, clock, threads, layout>>

\* One submit_trial on the engine, as long as finished is false; the
\* engine is never more than one trial ahead of the desktop loop.
EquivSubmitTrial ==
    /\ ~finished
    /\ Len(results) <= Len(desktop.results)
    /\ \E input \in Outcomes(Len(results) + 1, desktop.results) :
         LET sequence == FirstBlocks(current_span)
             response == IF input = "correct" THEN sequence
                         ELSE SwapFirstTwo(sequence)
             e == submit_trial(Engine, sequence, response)
         IN  /\ current_span' = e.current_span
             /\ current_trial' = e.current_trial
             /\ finished' = e.finished
             /\ results' = e.results
    /\ UNCHANGED env

NextEquiv ==
    \/ EquivDesktopTrial
    \/ EquivSubmitTrial

SpecEquiv == InitEquiv /\ [][NextEquiv]_vars

(* ---- submit_trial called from two threads on one engine ------------------ *)

\* Thread t enters submit_trial: correct is computed, the record is built
\* from the fields as they are now, and appended.
RaceAppend(t) ==
    /\ threads[t].pc = "idle"
    /\ Len(results) < MaxRace
    /\ \E sequence \in SubmittedSequences :
         \E response \in SubmittedResponses(sequence) :
            results' = appended_results(Engine, sequence, response)
    /\ threads' = [threads EXCEPT ![t] = [pc |-> "count"]]
    /\ UNCHANGED <<current_span, current_trial, finished, candidate_info,
                   SESSIONS, last_response, candidates, test_sessions, clock,
                   desktop, layout>>

\* Thread t builds its local list span_trials from results and current_span
\* as they are now.
RaceCount(t) ==
    /\ threads[t].pc = "count"
    /\ threads' = [threads EXCEPT ![t] =
                     [pc |-> "update",
                      span_trials |-> span_trials(results, current_span)]]
    /\ UNCHANGED <<current_span, current_trial, finished, results,
                   candidate_info, SESSIONS, last_response, candidates,
                   test_sessions, clock, desktop, layout>>

\* Thread t applies the progression rules to its local list and the fields
\* as they are now, and returns.
RaceUpdate(t) ==
    /\ threads[t].pc = "update"
    /\ LET p == progression(Engine, threads[t].span_trials)
       IN  /\ current_span' = p.current_span
           /\ current_trial' = p.current_trial
           /\ finished' = p.finished
    /\ threads' = [threads EXCEPT ![t] = Idle]
    /\ UNCHANGED <<results, candidate_info, SESSIONS, last_response,
                   candidates, test_sessions, clock, desktop, layout>>

NextRace ==
    \E t \in Threads :
        \/ RaceAppend(t)
        \/ RaceCount(t)
        \/ RaceUpdate(t)

SpecRace == Init /\ [][NextRace]_vars

(* ---- one call of generate_random_block_positions -------------------------- *)

\* One pass of the while loop: draw a point, append it if it is far enough
\* from every point placed, count the attempt.
LayoutDraw ==
    /\ ~layout.returned
    /\ Cardinality(layout.positions) < NUM_BLOCKS
    /\ layout.attempts < max_attempts
    /\ \E x \in DrawX, y \in DrawY :
         layout' =
            [layout EXCEPT
                !.positions =
                    IF \A pos \in layout.positions :
                          far_enough(x, y, pos[1], pos[2])
                    THEN @ \cup {<<x, y>>}
                    ELSE @,
                !.attempts = @ + 1]
    /\ UNCHANGED <<current_span, current_trial, finished, results,
                   candidate_info, SESSIONS, last_response, candidates,
                   test_sessions, clock, threads, desktop>>

\* The loop condition is false: return positions.
LayoutReturn ==
    /\ ~layout.returned
    /\ ~(Cardinality(layout.positions) < NUM_BLOCKS
          /\ layout.attempts < max_attempts)
    /\ layout' = [layout EXCEPT !.returned = TRUE]
    /\ UNCHANGED <<current_span, current_trial, finished, results,
                   candidate_info, SESSIONS, last_response, candidates,
                   test_sessions, clock, threads, desktop>>

NextLayout ==
    \/ LayoutDraw
    \/ LayoutReturn

SpecLayout == Init /\ [][NextLayout]_vars

(* ---- a first request with an arbitrary payload --------------------------- *)

\* TrialSubmission.sequence and .response are List[int] with no further
\* validation: every list of at most MaxListLen indices below MaxListLen.
ClientLists == UNION {[1..k -> 0..(MaxListLen - 1)] : k \in 0..MaxListLen}

\* POST /api/submit-trial, the first one of the session, with any two lists
\* (a first trial never finishes the session, so the handler does not call
\* save_session).
ClientSubmitTrial ==
    /\ results = <<>>
    /\ \E sequence \in ClientLists :
         \E response \in ClientLists :
            LET e == submit_trial(Engine, sequence, response)
            IN  /\ current_span' = e.current_span
                /\ current_trial' = e.current_trial
                /\ finished' = e.finished
                /\ results' = e.results
                /\ UNCHANGED env

NextClient == ClientSubmitTrial \/ GetSequence

SpecClient == Init /\ [][NextClient]_vars

(* ======================================================================= *)
(* Properties                                                              *)
(* ======================================================================= *)

\* Number of records of res at span s, and how many of them are correct.
CountAt(res, s) == Len(span_trials(res, s))
CorrectAt(res, s) == sum_correct(span_trials(res, s))

\* The step appends exactly one record and keeps the earlier ones in place.
AppendsOne ==
    /\ Len(results') = Len(results) + 1
    /\ SubSeq(results', 1, Len(results)) = results

\* C1 (discontinue rule): in a session that is not finished, when a
\* submit_trial call records the TRIALS_PER_SPAN-th trial at span S and no
\* trial recorded at S is correct, then right after the call finished is true
\* and current_span is still S.
C1_Discontinue ==
    [][ ( /\ ~finished
          /\ SubmitTrial
          /\ CountAt(results', current_span) = TRIALS_PER_SPAN
          /\ CorrectAt(results', current_span) = 0 )
        => (finished' /\ current_span' = current_span) ]_vars

\* Span 2 passed, both trials at span 3 failed, nothing submitted since.
C1_Witness ==
    /\ finished
    /\ current_span = MIN_SPAN + 1
    /\ Len(results) = TRIALS_PER_SPAN + TRIALS_PER_SPAN
    /\ CountAt(results, current_span) = TRIALS_PER_SPAN
    /\ CorrectAt(results, current_span) = 0

\* C2 (advancement): in a session that is not finished, at span S < MAX_SPAN,
\* when a submit_trial call records the TRIALS_PER_SPAN-th trial at S and at
\* least one trial at S is correct, then after the call current_span = S + 1,
\* current_trial = 1 and finished is still false.
C2_Advancement ==
    [][ ( /\ ~finished
          /\ SubmitTrial
          /\ current_span < MAX_SPAN
          /\ CountAt(results', current_span) = TRIALS_PER_SPAN
          /\ CorrectAt(results', current_span) >= 1 )
        => ( /\ current_span' = current_span + 1
             /\ current_trial' = 1
             /\ ~finished' ) ]_vars

\* Exactly one of the two trials at span 2 was correct and the span advanced.
C2_Witness ==
    /\ ~finished
    /\ current_span = MIN_SPAN + 1
    /\ current_trial = 1
    /\ Len(results) = TRIALS_PER_SPAN
    /\ CorrectAt(results, MIN_SPAN) = 1

\* C3 (ceiling): when a submit_trial call records the TRIALS_PER_SPAN-th trial
\* at current_span = MAX_SPAN and at least one trial at MAX_SPAN is correct,
\* finished becomes true and current_span stays MAX_SPAN; current_span never
\* exceeds MAX_SPAN.
C3_Ceiling ==
    /\ [][ ( /\ SubmitTrial
             /\ current_span = MAX_SPAN
             /\ CountAt(results', MAX_SPAN) = TRIALS_PER_SPAN
             /\ CorrectAt(results', MAX_SPAN) >= 1 )
           => (finished' /\ current_span' = MAX_SPAN) ]_vars
    /\ [](current_span <= MAX_SPAN)

\* Every span passed, the last one with a correct trial: ended at the ceiling.
C3_Witness ==
    /\ finished
    /\ current_span = MAX_SPAN
    /\ Len(results) = (MAX_SPAN - MIN_SPAN + 1) * TRIALS_PER_SPAN
    /\ CountAt(results, MAX_SPAN) = TRIALS_PER_SPAN
    /\ CorrectAt(results, MAX_SPAN) >= 1

\* C4: once finished is true, submit_trial accepts no further trial: a later
\* call fails or is a no-op and appends no record to results.
C4_NoTrialAfterFinish ==
    [][ finished => results' = results ]_vars

\* C5: for every span value that appears in results, the number of records
\* with that span_length is between 1 and TRIALS_PER_SPAN.
C5_TrialsPerSpanBounded ==
    \A i \in DOMAIN results :
        /\ CountAt(results, results[i].span_length) >= 1
        /\ CountAt(results, results[i].span_length) <= TRIALS_PER_SPAN

\* C6: in every reachable state in which finished is false,
\* MIN_SPAN <= current_span <= MAX_SPAN.
C6_SpanInRange ==
    ~finished => (MIN_SPAN <= current_span /\ current_span <= MAX_SPAN)

\* An unfinished session at the highest span, its first trial there recorded.
C6_Witness ==
    /\ ~finished
    /\ current_span = MAX_SPAN
    /\ CountAt(results, MAX_SPAN) = 1

\* C7: in every reachable state, calls made after finish included,
\* 1 <= current_trial <= TRIALS_PER_SPAN.
C7_TrialInRange ==
    1 <= current_trial /\ current_trial <= TRIALS_PER_SPAN

\* After finish, more calls were made and current_trial stands at its maximum.
C7_Witness ==
    /\ finished
    /\ current_trial = TRIALS_PER_SPAN
    /\ CountAt(results, MIN_SPAN) > TRIALS_PER_SPAN

\* C8: results is append-only: every submit_trial call keeps the recorded
\* entries unchanged and in order and appends exactly one record at the end;
\* no other operation changes results.
C8_AppendOnly ==
    [][ IF SubmitTrial THEN AppendsOne ELSE results' = results ]_vars

\* Several records are held, one of them appended after finish.
C8_Witness ==
    /\ finished
    /\ Len(results) > TRIALS_PER_SPAN
    /\ CountAt(results, MIN_SPAN) > TRIALS_PER_SPAN

\* C9: finished is monotonic: once true, it is true in every later state,
\* whatever calls follow.
C9_FinishedMonotonic ==
    [][ finished => finished' ]_vars

\* Finished at span 2, and a later call has advanced the span: still finished.
C9_Witness ==
    /\ finished
    /\ current_span > MIN_SPAN
    /\ CorrectAt(results, MIN_SPAN) = 1
    /\ results[1].correct = FALSE
    /\ results[TRIALS_PER_SPAN].correct = FALSE

\* C10: current_span starts at MIN_SPAN and never decreases; a submit_trial
\* call raises it by at most 1, and whenever a call raises it, current_trial
\* is 1 after that call.
C10_SpanMonotonic ==
    /\ current_span = MIN_SPAN
    /\ [][ /\ current_span' >= current_span
           /\ current_span' <= current_span + 1
           /\ (current_span' > current_span => current_trial' = 1) ]_vars

\* The span has been raised several times and the session goes on.
C10_Witness ==
    /\ ~finished
    /\ current_span > MIN_SPAN + 1
    /\ current_trial = 1
    /\ Len(results) = (current_span - MIN_SPAN) * TRIALS_PER_SPAN

\* C11: when, after the append, fewer than TRIALS_PER_SPAN records exist for
\* current_span, submit_trial increments current_trial by exactly 1 and leaves
\* current_span and finished unchanged.
C11_TrialIncrement ==
    [][ (SubmitTrial /\ CountAt(results', current_span) < TRIALS_PER_SPAN)
        => ( /\ current_trial' = current_trial + 1
             /\ current_span' = current_span
             /\ finished' = finished ) ]_vars

\* The first trial of span 3 has been recorded; the second is due.
C11_Witness ==
    /\ ~finished
    /\ current_span = MIN_SPAN + 1
    /\ current_trial = TRIALS_PER_SPAN
    /\ CountAt(results, current_span) = 1
    /\ results[Len(results)].trial_number = 1

\* C12: a trial is scored correct if and only if response equals sequence
\* element by element in the same order; a response with the same indices in
\* another order, or of another length, is scored correct = false.
C12_ListEquality ==
    \A i \in DOMAIN results :
        LET r == results[i]
        IN  /\ r.correct <=> (r.response = r.sequence)
            /\ (Range(r.response) = Range(r.sequence) /\ r.response # r.sequence)
                 => ~r.correct
            /\ Len(r.response) # Len(r.sequence) => ~r.correct

\* A response of the same indices as the sequence, but one too long, was
\* submitted and scored incorrect.
C12_Witness ==
    \E i \in DOMAIN results :
        /\ Range(results[i].response) = Range(results[i].sequence)
        /\ Len(results[i].response) = Len(results[i].sequence) + 1
        /\ Len(results[i].sequence) = MIN_SPAN
        /\ ~results[i].correct

\* A span qualifies when it has records and at least half of them are correct.
Qualifies(res, s) ==
    CountAt(res, s) >= 1 /\ CorrectAt(res, s) * 2 >= CountAt(res, s)

\* C13: calculate_corsi_span returns the largest span_length whose records
\* have correct_count / trial_count >= 1/2, over all recorded spans, and 0
\* when no span qualifies (the empty result set included).
C13_SpanScore ==
    LET v == calculate_corsi_span(results)
    IN  IF \E s \in MIN_SPAN..MAX_SPAN : Qualifies(results, s)
        THEN /\ v \in MIN_SPAN..MAX_SPAN
             /\ Qualifies(results, v)
             /\ \A s \in MIN_SPAN..MAX_SPAN : Qualifies(results, s) => s <= v
        ELSE v = 0

\* Span 4 at 2/2, span 5 at 0/2, nothing above: the score is 4.
C13_Witness ==
    /\ CountAt(results, MIN_SPAN + 2) = TRIALS_PER_SPAN
    /\ CorrectAt(results, MIN_SPAN + 2) = TRIALS_PER_SPAN
    /\ CountAt(results, MIN_SPAN + 3) = TRIALS_PER_SPAN
    /\ CorrectAt(results, MIN_SPAN + 3) = 0
    /\ current_span = MIN_SPAN + 3
    /\ calculate_corsi_span(results) = MIN_SPAN + 2

\* C14: at the moment finished first becomes true the span score is S-1 if the
\* discontinue rule fired at a span S > MIN_SPAN, 0 if it fired at MIN_SPAN,
\* and MAX_SPAN if the session ended at the ceiling.
C14_ScoreAtFinish ==
    [][ (~finished /\ finished')
        => calculate_corsi_span(results') =
             IF CorrectAt(results', current_span') = 0
             THEN IF current_span' = MIN_SPAN THEN 0 ELSE current_span' - 1
             ELSE MAX_SPAN ]_vars

\* 2/2 at span 2, 1/2 at span 3, 0/2 at span 4: finished with score 3.
C14_Witness ==
    /\ finished
    /\ current_span = MIN_SPAN + 2
    /\ Len(results) = TRIALS_PER_SPAN * 3
    /\ CorrectAt(results, MIN_SPAN) = TRIALS_PER_SPAN
    /\ CorrectAt(results, MIN_SPAN + 1) = 1
    /\ CorrectAt(results, MIN_SPAN + 2) = 0
    /\ calculate_corsi_span(results) = MIN_SPAN + 1

\* C15: from a fresh session finished becomes true after at least
\* TRIALS_PER_SPAN and at most (MAX_SPAN - MIN_SPAN + 1) * TRIALS_PER_SPAN
\* submit_trial calls, whatever the responses; the session ends only through
\* the discontinue rule or through span exhaustion at MAX_SPAN.
C15_FinishWithinBounds ==
    /\ [](finished => Len(results) >= TRIALS_PER_SPAN)
    /\ [](Len(results) >= (MAX_SPAN - MIN_SPAN + 1) * TRIALS_PER_SPAN => finished)
    /\ [][ (~finished /\ finished')
           => /\ current_span' = current_span
              /\ CountAt(results', current_span) = TRIALS_PER_SPAN
              /\ \/ CorrectAt(results', current_span) = 0
                 \/ current_span = MAX_SPAN ]_vars

\* The longest session: every span passed, then discontinued at MAX_SPAN on
\* the last possible call.
C15_Witness ==
    /\ finished
    /\ current_span = MAX_SPAN
    /\ Len(results) = (MAX_SPAN - MIN_SPAN + 1) * TRIALS_PER_SPAN
    /\ CorrectAt(results, MAX_SPAN) = 0

\* 1-based position of record i among the records of its span.
PositionInSpan(res, i) ==
    Cardinality({j \in 1..i : res[j].span_length = res[i].span_length})

\* C16: every record in results has trial_number equal to its 1-based position
\* among the records with the same span_length, and trial_number <=
\* TRIALS_PER_SPAN.
C16_TrialNumberIsPosition ==
    \A i \in DOMAIN results :
        /\ results[i].trial_number = PositionInSpan(results, i)
        /\ results[i].trial_number <= TRIALS_PER_SPAN

\* seq is n pairwise-distinct block indices of 0..NUM_BLOCKS-1.
IsSample(seq, n) ==
    /\ Len(seq) = n
    /\ \A i \in DOMAIN seq : seq[i] \in 0..(NUM_BLOCKS - 1)
    /\ \A i, j \in DOMAIN seq : i # j => seq[i] # seq[j]

\* C17: every record in results holds as its sequence a sequence get-sequence
\* produced at that span: exactly span_length pairwise-distinct block indices
\* of 0..NUM_BLOCKS-1.
C17_SequenceWasGenerated ==
    \A i \in DOMAIN results :
        IsSample(results[i].sequence, results[i].span_length)

\* C18: in every reachable engine state (after finish too) new_sequence
\* succeeds, because current_span <= NUM_BLOCKS, and returns exactly
\* current_span pairwise-distinct indices, each in 0..NUM_BLOCKS-1.
C18_NewSequenceSucceeds ==
    /\ current_span <= NUM_BLOCKS
    /\ new_sequence(Engine) # {}
    /\ \A seq \in new_sequence(Engine) : IsSample(seq, current_span)

\* A session finished at the ceiling that has taken a further call: the next
\* sequence has MAX_SPAN blocks.
C18_Witness ==
    /\ finished
    /\ current_span = MAX_SPAN
    /\ CountAt(results, MAX_SPAN) > TRIALS_PER_SPAN
    /\ \E seq \in new_sequence(Engine) : Len(seq) = MAX_SPAN

\* C19: new_sequence, calculate_corsi_span and start_session/_state leave
\* current_span, current_trial, finished and results unchanged, and
\* calculate_corsi_span can be called in any state without failing.
C19_ReadOnly ==
    /\ [][ (GetSequence \/ StartSession \/ CalculateCorsiSpan)
           => UNCHANGED <<current_span, current_trial, finished, results>> ]_vars
    /\ [](ENABLED CalculateCorsiSpan)

\* A finished session with a score: the read-only calls are still available.
C19_Witness ==
    /\ finished
    /\ current_span = MAX_SPAN
    /\ calculate_corsi_span(results) = MAX_SPAN - 1
    /\ ENABLED CalculateCorsiSpan
    /\ ENABLED GetSequence

\* C20: the value returned by submit_trial reflects the state after the
\* mutation: finished and next_state equal the engine's current_span,
\* current_trial and finished after the call, and correct equals the correct
\* field of the record just appended.
C20_ReturnIsPostState ==
    [][ \A sequence \in SubmittedSequences :
          \A response \in SubmittedResponses(sequence) :
            (results' = appended_results(Engine, sequence, response))
            => LET ret == submit_trial_return(Engine, sequence, response)
               IN  /\ ret.finished = finished'
                   /\ ret.next_state =
                        [span_length |-> current_span',
                         trial_number |-> current_trial',
                         finished |-> finished']
                   /\ ret.correct = results'[Len(results')].correct ]_vars

\* The call that has just discontinued the session at MIN_SPAN.
C20_Witness ==
    /\ finished
    /\ current_span = MIN_SPAN
    /\ Len(results) = TRIALS_PER_SPAN
    /\ ~results[Len(results)].correct


(* ---- persistence and the web layer ---------------------------------------- *)

\* The number of rows of table candidates.
RowCount(cands) == Cardinality({c \in CandidateIds : cands[c].present})

\* The metadata the specification calls valid: a name and an id that are
\* present and not empty, and a session number that is left out or a positive
\* integer.
ValidMetadata(b) ==
    /\ b.candidate_name \notin {"", "None"}
    /\ b.candidate_id \notin {"", "None"}
    /\ \/ b.session.kind = "absent"
       \/ b.session.kind = "int" /\ b.session.value >= 1

\* C21: the database changes only in a submit-trial request that returns
\* finished = true, and then only in rows of that session's candidate:
\* start-session, get-sequence and non-finishing submit-trial requests write
\* nothing, so an abandoned session leaves the database as it was.
C21_NoEarlyWrite ==
    [][(candidates' # candidates \/ test_sessions' # test_sessions) =>
        /\ last_response'.op = "submit-trial"
        /\ last_response'.status = 200
        /\ last_response'.body.trial_result.finished
        /\ LET cid == SESSIONS[last_response'.session_id].candidate_info.candidate_id
           IN  /\ \A c \in CandidateIds \ {cid} : candidates'[c] = candidates[c]
               /\ \A i \in DOMAIN test_sessions' \ DOMAIN test_sessions :
                     test_sessions'[i].candidate_id = cid]_vars

\* A session was started and answered a trial without finishing, and the
\* database is still empty.
C21_Witness ==
    /\ last_response.op = "submit-trial"
    /\ last_response.status = 200
    /\ ~last_response.body.trial_result.finished
    /\ SESSIONS[last_response.session_id].engine.results # <<>>
    /\ test_sessions = <<>>
    /\ RowCount(candidates) = 0

\* C22: save_session on an engine without results returns the empty summary
\* and writes neither a candidate row nor a session row.
C22_EmptySave ==
    [][(last_response'.op = "save_session" /\ clock' # clock /\ results = <<>>) =>
        /\ last_response'.ret = EmptySummary
        /\ UNCHANGED <<candidates, test_sessions>>]_vars

\* save_session has just returned on an engine without results.
C22_Witness ==
    /\ last_response.op = "save_session"
    /\ results = <<>>
    /\ last_response.ret = EmptySummary

\* C23: for non-empty results the summary of save_session has total_trials =
\* the number of records, correct_trials = the number of records with correct
\* = true (between 0 and total_trials), accuracy = 100 * correct_trials /
\* total_trials and corsi_span = calculate_corsi_span() of the same results.
C23_Summary ==
    [][(last_response'.op = "save_session" /\ clock' # clock /\ results # <<>>) =>
        LET s == last_response'.ret
            n == Cardinality({i \in DOMAIN results : results[i].correct})
        IN  /\ s.total_trials = Len(results)
            /\ s.correct_trials = n
            /\ 0 <= s.correct_trials /\ s.correct_trials <= s.total_trials
            /\ s.accuracy.den > 0
            /\ s.accuracy.num * s.total_trials = 100 * n * s.accuracy.den
            /\ s.corsi_span = calculate_corsi_span(results)]_vars

\* save_session has just summarised three trials of which two were correct.
C23_Witness ==
    /\ last_response.op = "save_session"
    /\ Len(results) = 3
    /\ last_response.ret.total_trials = 3
    /\ last_response.ret.correct_trials = 2

\* C24: a get-sequence or submit-trial request naming a session id that is
\* not in the session table is answered 404 and leaves the session table,
\* every engine in it and the database unchanged.
C24_UnknownSession ==
    [][(/\ last_response'.op \in {"get-sequence", "submit-trial"}
        /\ clock' # clock
        /\ last_response'.session_id \notin DOMAIN SESSIONS) =>
        /\ last_response'.status = 404
        /\ UNCHANGED <<SESSIONS, candidates, test_sessions>>]_vars

\* A request for an unknown id was answered 404 while a session with results
\* was in the table.
C24_Witness ==
    /\ last_response.op \in {"get-sequence", "submit-trial"}
    /\ last_response.status = 404
    /\ last_response.session_id \notin DOMAIN SESSIONS
    /\ \E s \in DOMAIN SESSIONS : SESSIONS[s].engine.results # <<>>

\* C25: a start-session request whose metadata is invalid (empty or missing
\* candidate name or id, or a session number that is not a positive integer)
\* is rejected and adds no entry to the session table.
C25_InvalidMetadataRejected ==
    [][(/\ last_response'.op = "start-session"
        /\ clock' # clock
        /\ ~ValidMetadata(last_response'.request)) =>
        /\ last_response'.status # 200
        /\ UNCHANGED SESSIONS]_vars

\* C26: when a write of save_session fails, save_session does not raise,
\* returns the full summary of the results, and leaves current_span,
\* current_trial, finished and results as they were.
C26_FailedWrite ==
    [][(/\ last_response'.op = "save_session"
        /\ clock' # clock
        /\ results # <<>>
        /\ last_response'.failed) =>
        /\ ~last_response'.raised
        /\ last_response'.ret = session_summary(results, candidate_info, clock)
        /\ UNCHANGED <<current_span, current_trial, finished, results>>]_vars

\* save_session has just returned a summary although the session row could
\* not be written.
C26_Witness ==
    /\ last_response.op = "save_session"
    /\ last_response.failed
    /\ results # <<>>
    /\ ~last_response.raised
    /\ ~last_response.ret.empty
    /\ test_sessions = <<>>

\* C27: the response to a submit-trial request that finishes a session whose
\* results could not be saved differs from the response to the same request
\* when the results were saved.
C27_FailureDistinguishable ==
    \A sid \in DOMAIN SESSIONS :
        LET entry == SESSIONS[sid]
            sequence == FirstBlocks(entry.engine.current_span)
        IN  \A response \in SubmittedResponses(sequence) :
              \A o1 \in WriteOutcomes, o2 \in WriteOutcomes :
                LET saved == submit_outcome(entry, sequence, response, Db,
                                            clock, "ok", "ok")
                    lost  == submit_outcome(entry, sequence, response, Db,
                                            clock, o1, o2)
                IN  (saved.body.trial_result.finished /\ (o1 # "ok" \/ o2 # "ok"))
                        => (lost.body # saved.body \/ lost.raised # saved.raised)

\* C28: a request for one session id leaves the engine of every other session
\* in the table unchanged, and an accepted start-session adds, under an id
\* that was not in the table, a fresh engine at (MIN_SPAN, trial 1, not
\* finished, no results).
C28_Isolation ==
    [][clock' # clock =>
        /\ \A s \in DOMAIN SESSIONS :
              s # last_response'.session_id => SESSIONS'[s] = SESSIONS[s]
        /\ (last_response'.op = "start-session" /\ last_response'.status = 200) =>
              LET new == last_response'.session_id
              IN  /\ new \notin DOMAIN SESSIONS
                  /\ DOMAIN SESSIONS' = DOMAIN SESSIONS \cup {new}
                  /\ SESSIONS'[new].engine.current_span = MIN_SPAN
                  /\ SESSIONS'[new].engine.current_trial = 1
                  /\ SESSIONS'[new].engine.finished = FALSE
                  /\ SESSIONS'[new].engine.results = <<>>]_vars

\* Two sessions are in the table; the first has just answered a trial and the
\* second is still fresh.
C28_Witness ==
    /\ Len(SESSIONS) >= 2
    /\ last_response.op = "submit-trial"
    /\ last_response.session_id = 1
    /\ SESSIONS[1].engine.results # <<>>
    /\ SESSIONS[2].engine = NewEngine

\* C29: a successful save_candidate for an id that is not stored inserts one
\* row with total_sessions = 0; for an id that is stored it updates name,
\* age, gender, examiner and notes and refreshes last_session_date, leaving
\* total_sessions, date_created and the number of candidate rows unchanged.
\* No other row and no session row is touched.
C29_Upsert ==
    [][(/\ last_response'.op = "save_candidate"
        /\ clock' # clock
        /\ last_response'.ret) =>
        LET info == last_response'.arg
            old  == candidates[info.candidate_id]
            new  == candidates'[info.candidate_id]
        IN  /\ new.present
            /\ new.candidate_name = info.candidate_name
            /\ new.age = info.age
            /\ new.gender = info.gender
            /\ new.examiner_name = info.examiner_name
            /\ new.additional_notes = info.additional_notes
            /\ new.last_session_date = clock
            /\ \A d \in CandidateIds \ {info.candidate_id} :
                  candidates'[d] = candidates[d]
            /\ test_sessions' = test_sessions
            /\ IF old.present
               THEN /\ new.total_sessions = old.total_sessions
                    /\ new.date_created = old.date_created
                    /\ RowCount(candidates') = RowCount(candidates)
               ELSE /\ new.total_sessions = 0
                    /\ RowCount(candidates') = RowCount(candidates) + 1]_vars

\* save_candidate has just updated the details of a candidate who already
\* has a counted session.
C29_Witness ==
    /\ last_response.op = "save_candidate"
    /\ last_response.ret
    /\ candidates[last_response.arg.candidate_id].present
    /\ candidates[last_response.arg.candidate_id].total_sessions >= 1
    /\ candidates[last_response.arg.candidate_id].candidate_name = "Ann B"
    /\ candidates[last_response.arg.candidate_id].date_created
          < candidates[last_response.arg.candidate_id].last_session_date

\* C30: a successful save_test_session inserts exactly one session row and
\* increments that candidate's total_sessions by exactly 1; a failed call
\* returns False and leaves the session rows and total_sessions unchanged.
C30_AtomicSessionWrite ==
    [][(last_response'.op = "save_test_session" /\ clock' # clock) =>
        LET c == last_response'.arg
        IN  IF last_response'.ret
            THEN /\ Len(test_sessions') = Len(test_sessions) + 1
                 /\ candidates[c].present
                 /\ candidates'[c].present
                 /\ candidates'[c].total_sessions = candidates[c].total_sessions + 1
            ELSE UNCHANGED <<candidates, test_sessions>>]_vars

(* ---- the desktop application ---------------------------------------------- *)

\* The metadata a dialog may hand over, in the words of the claim: a name
\* and an id that are not empty and a session text denoting an integer >= 1.
AcceptableInfo(info) ==
    /\ info # NoInfo
    /\ info.candidate_name # ""
    /\ info.candidate_id # ""
    /\ info.session \in {"1", "2"}

\* C37: when the examiner quits during a trial (Q while the sequence is
\* shown or while the response is entered), the run writes no results file,
\* inserts no session row and changes no candidate row, while the trials
\* completed before the quit stay in the in-memory results; and every run
\* starts from an empty results list.
C37_QuitPersistsNothing ==
    [][/\ (/\ desktop'.last.op = "trial"
           /\ clock' # clock
           /\ desktop'.last.input \in {"quit_display", "quit_response"}) =>
             /\ UNCHANGED <<candidates, test_sessions>>
             /\ desktop'.files = desktop.files
             /\ desktop'.results = desktop.results
       /\ (desktop'.last.op = "run" /\ clock' # clock) =>
             desktop'.results = <<>>]_vars

\* The examiner has just quit a run in which a trial was completed, and
\* nothing was written.
C37_Witness ==
    /\ desktop.last.op = "trial"
    /\ desktop.last.input = "quit_response"
    /\ desktop.results # <<>>
    /\ desktop.files = <<>>
    /\ test_sessions = <<>>
    /\ candidates["C001"].present
    /\ candidates["C001"].total_sessions = 0

\* C38: collect_candidate_details and edit_candidate_details replace the
\* current candidate info, and write to table candidates (the row of that
\* candidate only), only if the dialog was confirmed and the metadata is
\* acceptable; otherwise the current candidate info and the database are
\* unchanged.  validate_candidate_info accepts exactly the acceptable
\* metadata.
C38_DialogValidation ==
    /\ \A info \in DialogInfos :
          validate_candidate_info(info) <=> AcceptableInfo(info)
    /\ [][(desktop'.last.op \in {"collect", "edit"} /\ clock' # clock) =>
            IF desktop'.last.OK /\ AcceptableInfo(desktop'.last.info)
            THEN /\ desktop'.exp_info = desktop'.last.info
                 /\ test_sessions' = test_sessions
                 /\ \A c \in CandidateIds \ {desktop'.last.info.candidate_id} :
                       candidates'[c] = candidates[c]
            ELSE /\ desktop'.exp_info = desktop.exp_info
                 /\ UNCHANGED <<candidates, test_sessions>>]_vars

\* The examiner has just confirmed an edit whose session number is 0: the
\* candidate info is still the one entered before.
C38_Witness ==
    /\ desktop.last.op = "edit"
    /\ desktop.last.OK
    /\ desktop.last.info.session = "0"
    /\ desktop.last.info.candidate_name # ""
    /\ desktop.last.info.candidate_id # ""
    /\ desktop.exp_info # NoInfo
    /\ desktop.exp_info # desktop.last.info

\* The triple of a trial record the claim compares.
Triple(r) == <<r.span_length, r.trial_number, r.correct>>

\* C36: fed the same per-trial outcomes, the desktop loop run_main_test and
\* the web engine (submit_trial until finished first becomes true) record
\* the same (span_length, trial_number, correct) triples, stop after the
\* same trial and yield the same span score.
C36_DesktopWebEquivalent ==
    /\ \A i \in DOMAIN results \cap DOMAIN desktop.results :
          Triple(results[i]) = Triple(desktop.results[i])
    /\ desktop.phase = "done" =>
          /\ Len(results) <= Len(desktop.results)
          /\ Len(results) = Len(desktop.results) => finished
    /\ finished =>
          /\ Len(desktop.results) <= Len(results)
          /\ Len(desktop.results) = Len(results) => desktop.phase = "done"
    /\ (finished /\ desktop.phase = "done") =>
          calculate_corsi_span(results) = task_calculate_corsi_span(desktop.results)

\* Both programs have stopped at the ceiling, after two trials at every
\* span.
C36_Witness ==
    /\ finished
    /\ desktop.phase = "done"
    /\ Len(results) = TRIALS_PER_SPAN * (MAX_SPAN - MIN_SPAN + 1)
    /\ Len(desktop.results) = Len(results)
    /\ calculate_corsi_span(results) = MAX_SPAN

(* ---- concurrent calls ------------------------------------------------------ *)

\* C34: once two interleaved submit_trial calls on one engine have both
\* returned, the engine is in a state sequential calls could have produced:
\* current_trial does not exceed TRIALS_PER_SPAN and no span below
\* current_span was skipped (each has a record).
C34_InterleavingSerializable ==
    (\A t \in Threads : threads[t].pc = "idle") =>
        /\ current_trial \in 1..TRIALS_PER_SPAN
        /\ \A s \in MIN_SPAN..(current_span - 1) : CountAt(results, s) >= 1

(* ---- the block layout ------------------------------------------------------ *)

\* C40: generate_random_block_positions returns after at most max_attempts
\* draws with exactly NUM_BLOCKS positions, pairwise at least
\* MIN_BLOCK_DISTANCE apart (so that any span up to MAX_SPAN can be sampled
\* from the blocks).
C40_LayoutComplete ==
    layout.returned =>
        /\ layout.attempts <= max_attempts
        /\ Cardinality(layout.positions) = NUM_BLOCKS
        /\ Cardinality(layout.positions) >= MAX_SPAN
        /\ \A p \in layout.positions : \A q \in layout.positions \ {p} :
              far_enough(p[1], p[2], q[1], q[2])

(* ---- the engine over a whole session --------------------------------------- *)

\* The session rows stored for candidate_id c.
RowsOf(c) == {i \in DOMAIN test_sessions : test_sessions[i].candidate_id = c}

\* C31: over the lifetime of one web session id save_session runs for at
\* most one submit-trial request: a request that returns a summary is served
\* by an engine that was not finished before it.
C31_SavedAtMostOnce ==
    [][(/\ last_response'.op = "submit-trial"
        /\ clock' # clock
        /\ last_response'.status = 200
        /\ last_response'.body.summary # NoSummary) =>
            ~SESSIONS[last_response'.session_id].engine.finished]_vars

\* C32: once finished is true no submit_trial call changes current_span or
\* current_trial.
C32_FrozenAfterFinish ==
    [][finished =>
        (current_span' = current_span /\ current_trial' = current_trial)]_vars

\* C33: in every state with finished = false, results has exactly
\* TRIALS_PER_SPAN records for each span below current_span, at least one of
\* them correct, exactly current_trial - 1 records for current_span, and no
\* record for any other span.
C33_ResultsShape ==
    ~finished =>
        /\ \A s \in MIN_SPAN..(current_span - 1) :
              /\ CountAt(results, s) = TRIALS_PER_SPAN
              /\ CorrectAt(results, s) >= 1
        /\ CountAt(results, current_span) = current_trial - 1
        /\ \A i \in DOMAIN results :
              results[i].span_length \in MIN_SPAN..current_span

\* An unfinished session at the second trial of span 4.
C33_Witness ==
    /\ ~finished
    /\ current_span = 4
    /\ current_trial = 2
    /\ Len(results) = 5

\* C35: a submit_trial call on an unfinished session never lowers the value
\* of calculate_corsi_span, and in an unfinished session that value never
\* exceeds current_span.
C35_ScoreMonotonic ==
    /\ [](~finished => calculate_corsi_span(results) <= current_span)
    /\ [][~finished =>
            calculate_corsi_span(results') >= calculate_corsi_span(results)]_vars

\* An unfinished session whose score has reached the current span, 3 or
\* more, with one trial of that span recorded.
C35_Witness ==
    /\ ~finished
    /\ current_span >= 3
    /\ current_trial = 2
    /\ calculate_corsi_span(results) = current_span

\* C39: every stored candidate's total_sessions equals the number of
\* session rows with that candidate_id, and every session row refers to a
\* candidate_id that has a candidate row.
C39_CountsMatchRows ==
    /\ \A c \in CandidateIds :
          candidates[c].present =>
              candidates[c].total_sessions = Cardinality(RowsOf(c))
    /\ \A i \in DOMAIN test_sessions :
          candidates[test_sessions[i].candidate_id].present

====
